---- MODULE Spec2Model ----
(***************************************************************************)
(* EthioRoute cost engine (src/script.js): the click handler               *)
(* handleCalculation, the orchestrator calculateTotalCost and the four     *)
(* calculators it invokes, the logger and the number formatting.           *)
(*                                                                         *)
(* Numbers.  A JavaScript number is modelled as a record [n, d]:           *)
(*   d > 0          the finite value n/d, in lowest terms;                 *)
(*   d = 0, n # 0   +Infinity (n = 1) or -Infinity (n = -1);               *)
(*   d = 0, n = 0   NaN.                                                   *)
(* Finite arithmetic is exact (binary64 rounding and the sign of zero are  *)
(* not modelled); the IEEE rules for NaN and the infinities are.           *)
(*                                                                         *)
(* Strings that the code builds or parses character by character are       *)
(* sequences of one-character strings.                                     *)
(***************************************************************************)
EXTENDS Integers, Sequences, FiniteSets, TLC

(***************************************************************************)
(* JavaScript number arithmetic                                            *)
(***************************************************************************)
Abs(i) == IF i < 0 THEN -i ELSE i

Sign(i) == IF i < 0 THEN -1 ELSE IF i > 0 THEN 1 ELSE 0

RECURSIVE GCD(_, _)
GCD(a, b) == IF b = 0 THEN a ELSE GCD(b, a % b)

NaN == [n |-> 0, d |-> 0]

Infinity(s) == [n |-> s, d |-> 0]

\* n/d (d # 0) with the common divisor g of n and d cancelled
Reduce(n, d, g) == [n |-> Sign(d) * (n \div g), d |-> Abs(d) \div g]

\* the finite number n/d (d # 0), in lowest terms
Rat(n, d) == Reduce(n, d, GCD(Abs(n), Abs(d)))

Int2Num(i) == [n |-> i, d |-> 1]

IsNaN(x) == x.n = 0 /\ x.d = 0

IsFinite(x) == x.d > 0

IsInfinite(x) == x.d = 0 /\ x.n # 0

\* x + y for finite x and y, g the greatest common divisor of x.d and y.d
AddFinite(x, y, g) ==
    Rat(x.n * (y.d \div g) + y.n * (x.d \div g), (x.d \div g) * y.d)

\* x + y
Add(x, y) ==
    IF IsNaN(x) \/ IsNaN(y) THEN NaN
    ELSE IF IsInfinite(x) /\ IsInfinite(y) THEN (IF x.n = y.n THEN x ELSE NaN)
    ELSE IF IsInfinite(x) THEN x
    ELSE IF IsInfinite(y) THEN y
    ELSE AddFinite(x, y, GCD(x.d, y.d))

Neg(x) == [n |-> -x.n, d |-> x.d]

\* x - y
Sub(x, y) == Add(x, Neg(y))

\* x * y for finite x and y, g1 and g2 the divisors cancelled crosswise
MulFinite(x, y, g1, g2) ==
    Rat((x.n \div g1) * (y.n \div g2), (x.d \div g2) * (y.d \div g1))

\* x * y
Mul(x, y) ==
    IF IsNaN(x) \/ IsNaN(y) THEN NaN
    ELSE IF IsInfinite(x) \/ IsInfinite(y)
         THEN (IF x.n = 0 \/ y.n = 0 THEN NaN ELSE Infinity(Sign(x.n) * Sign(y.n)))
    ELSE MulFinite(x, y, GCD(Abs(x.n), y.d), GCD(Abs(y.n), x.d))

\* x / y
Div(x, y) ==
    IF IsNaN(x) \/ IsNaN(y) THEN NaN
    ELSE IF IsInfinite(y) THEN (IF IsInfinite(x) THEN NaN ELSE Int2Num(0))
    ELSE IF y.n = 0
         THEN (IF x.n = 0 THEN NaN ELSE Infinity(Sign(x.n)))
    ELSE Mul(x, [n |-> Sign(y.n) * y.d, d |-> Abs(y.n)])

\* x > y (false when either is NaN)
Gt(x, y) ==
    /\ ~IsNaN(x)
    /\ ~IsNaN(y)
    /\ x # y
    /\ IF IsInfinite(x) THEN x.n = 1
       ELSE IF IsInfinite(y) THEN y.n = -1
       ELSE x.n * y.d > y.n * x.d

\* x >= y (false when either is NaN)
Ge(x, y) == ~IsNaN(x) /\ ~IsNaN(y) /\ (x = y \/ Gt(x, y))

\* x <= y (false when either is NaN)
Le(x, y) == Ge(y, x)

\* x < y (false when either is NaN)
Lt(x, y) == Gt(y, x)

\* Math.max(x, y)
MathMax(x, y) ==
    IF IsNaN(x) \/ IsNaN(y) THEN NaN ELSE IF Gt(y, x) THEN y ELSE x

(***************************************************************************)
(* Strings as sequences of characters                                      *)
(***************************************************************************)
DigitChars == <<"0", "1", "2", "3", "4", "5", "6", "7", "8", "9">>

IsDigit(c) == \E i \in 1..10 : DigitChars[i] = c

DigitValue(c) == (CHOOSE i \in 1..10 : DigitChars[i] = c) - 1

RECURSIVE Digits(_)
\* the decimal digits of a natural number
Digits(i) ==
    IF i < 10 THEN <<DigitChars[i + 1]>>
    ELSE Append(Digits(i \div 10), DigitChars[(i % 10) + 1])

\* the suffix of s from position i on
Drop(s, i) == SubSeq(s, i, Len(s))

StartsWith(s, p) == Len(s) >= Len(p) /\ SubSeq(s, 1, Len(p)) = p

LetterChars ==
    {"I", "n", "f", "i", "t", "y", "e", "E", "a", "b", "c", "x", "_"}

\* \w of the regular expressions
IsWordChar(c) == IsDigit(c) \/ c \in LetterChars

\* StrWhiteSpaceChar
IsWhiteSpace(c) == c = " "

RECURSIVE SkipWhiteSpace(_)
SkipWhiteSpace(s) ==
    IF s # <<>> /\ IsWhiteSpace(s[1]) THEN SkipWhiteSpace(Tail(s)) ELSE s

RECURSIVE DigitRun(_, _)
\* the number of consecutive digits of s from position i on
DigitRun(s, i) ==
    IF i <= Len(s) /\ IsDigit(s[i]) THEN 1 + DigitRun(s, i + 1) ELSE 0

RECURSIVE NatOf(_)
\* the natural number a sequence of digits denotes (0 for the empty one)
NatOf(ds) ==
    IF ds = <<>> THEN 0
    ELSE NatOf(SubSeq(ds, 1, Len(ds) - 1)) * 10 + DigitValue(ds[Len(ds)])

RECURSIVE Pow10(_)
Pow10(e) == IF e = 0 THEN 1 ELSE 10 * Pow10(e - 1)

InfinityChars == <<"I", "n", "f", "i", "n", "i", "t", "y">>

(***************************************************************************)
(* Number.prototype.toFixed(2), the thousands separators and formatETB     *)
(***************************************************************************)
\* the decimal notation of a number of hundredths
CentsToString(cents) ==
    Digits(cents \div 100)
    \o <<".", DigitChars[((cents % 100) \div 10) + 1], DigitChars[(cents % 10) + 1]>>

\* a/d (a >= 0) in hundredths, rounded to the nearest, upwards on a tie
RoundToCents(a, d) ==
    (a \div d) * 100 + (((a % d) * 100) \div d)
    + (IF 2 * (((a % d) * 100) % d) >= d THEN 1 ELSE 0)

\* x.toFixed(2) for x below 10^21 in magnitude: the nearest multiple of
\* 0.01, the larger one on a tie, the sign of x kept
toFixed2(x) ==
    IF IsNaN(x) THEN <<"N", "a", "N">>
    ELSE IF IsInfinite(x)
    THEN (IF x.n < 0 THEN <<"-">> ELSE <<>>) \o InfinityChars
    ELSE (IF x.n < 0 THEN <<"-">> ELSE <<>>)
         \o CentsToString(RoundToCents(Abs(x.n), x.d))

\* the regular expression /\B(?=(\d{3})+(?!\d))/ matches between s[i] and
\* s[i+1]: no word boundary there, and a run of 3, 6, 9, ... digits follows
CommaMatch(s, i) ==
    /\ i < Len(s)
    /\ IsWordChar(s[i]) = IsWordChar(s[i + 1])
    /\ DigitRun(s, i + 1) > 0
    /\ DigitRun(s, i + 1) % 3 = 0

RECURSIVE ReplaceFrom(_, _)
ReplaceFrom(s, i) ==
    IF i > Len(s) THEN <<>>
    ELSE <<s[i]>> \o (IF CommaMatch(s, i) THEN <<",">> ELSE <<>>)
         \o ReplaceFrom(s, i + 1)

\* s.replace(/\B(?=(\d{3})+(?!\d))/g, ",")
InsertCommas(s) == ReplaceFrom(s, 1)

formatETB(amount) ==
    IF IsNaN(amount) THEN <<"0", ".", "0", "0">>
    ELSE InsertCommas(toFixed2(amount))

(***************************************************************************)
(* parseFloat and parseInt (radix 10) on strings over the characters       *)
(* digits, sign, ".", "e", space and letters                               *)
(***************************************************************************)
\* the value of the mantissa mant, whose integer part is of decimal order
\* `order`, scaled by 10^exp if an exponent part is present; a value of
\* decimal order above 308 is beyond the largest finite number
ScaledValue(sgn, mant, order, hasExp, exp) ==
    IF ~hasExp \/ mant.n = 0 THEN Mul(Int2Num(sgn), mant)
    ELSE IF order + exp > 308 THEN Infinity(sgn)
    ELSE IF exp >= 0 THEN Mul(Int2Num(sgn * Pow10(exp)), mant)
    ELSE Mul(Rat(sgn, Pow10(-exp)), mant)

\* the exponent part of u, if any, follows position mEnd; it counts only
\* with at least one digit (k3 of them, from position eFrom on)
ParseExponent(u, sgn, mant, order, mEnd, eSign, eFrom, k3) ==
    ScaledValue(sgn, mant, order, k3 > 0,
                IF eSign /\ u[mEnd + 2] = "-"
                THEN -NatOf(SubSeq(u, eFrom, eFrom + k3 - 1))
                ELSE NatOf(SubSeq(u, eFrom, eFrom + k3 - 1)))

\* u has k1 integer digits and, after a point if hasDot, k2 fraction digits
ParseMantissa(u, sgn, k1, hasDot, k2, mEnd, hasE, eSign) ==
    IF k1 + k2 = 0 THEN NaN
    ELSE ParseExponent(u, sgn,
            Rat(NatOf(SubSeq(u, 1, k1)) * Pow10(k2)
                    + NatOf(SubSeq(u, k1 + 2, k1 + 1 + k2)),
                Pow10(k2)),
            Len(Digits(NatOf(SubSeq(u, 1, k1)))) - 1,
            mEnd, eSign, IF eSign THEN mEnd + 3 ELSE mEnd + 2,
            IF ~hasE THEN 0
            ELSE DigitRun(u, IF eSign THEN mEnd + 3 ELSE mEnd + 2))

ParseDigits(u, sgn, k1, hasDot, k2, mEnd) ==
    ParseMantissa(u, sgn, k1, hasDot, k2, mEnd,
                  Len(u) > mEnd /\ u[mEnd + 1] \in {"e", "E"},
                  /\ Len(u) > mEnd + 1
                  /\ u[mEnd + 1] \in {"e", "E"}
                  /\ u[mEnd + 2] \in {"+", "-"})

ParseFraction(u, sgn, k1, hasDot) ==
    ParseDigits(u, sgn, k1, hasDot,
                IF hasDot THEN DigitRun(u, k1 + 2) ELSE 0,
                IF hasDot THEN k1 + 1 + DigitRun(u, k1 + 2) ELSE k1)

\* the number the longest prefix of u that is a decimal literal denotes
ParseUnsigned(u, sgn, k1) ==
    IF StartsWith(u, InfinityChars) THEN Infinity(sgn)
    ELSE ParseFraction(u, sgn, k1, Len(u) > k1 /\ u[k1 + 1] = ".")

ParseSigned(s) ==
    IF s # <<>> /\ s[1] \in {"+", "-"}
    THEN ParseUnsigned(Tail(s), IF s[1] = "-" THEN -1 ELSE 1, DigitRun(Tail(s), 1))
    ELSE ParseUnsigned(s, 1, DigitRun(s, 1))

parseFloat(str) == ParseSigned(SkipWhiteSpace(str))

ParseIntDigits(u, sgn, k) ==
    IF k = 0 THEN NaN ELSE Int2Num(sgn * NatOf(SubSeq(u, 1, k)))

ParseIntSigned(s) ==
    IF s # <<>> /\ s[1] \in {"+", "-"}
    THEN ParseIntDigits(Tail(s), IF s[1] = "-" THEN -1 ELSE 1, DigitRun(Tail(s), 1))
    ELSE ParseIntDigits(s, 1, DigitRun(s, 1))

parseInt(str) == ParseIntSigned(SkipWhiteSpace(str))

RECURSIVE FractionDigits(_, _)
\* the decimal digits of n/d (0 <= n < d), which must terminate
FractionDigits(n, d) ==
    IF n = 0 THEN <<>>
    ELSE <<DigitChars[((n * 10) \div d) + 1]>> \o FractionDigits((n * 10) % d, d)

\* String(x), as a template literal `${x}` converts a number whose decimal
\* expansion is short
NumberToString(x) ==
    IF IsNaN(x) THEN <<"N", "a", "N">>
    ELSE IF IsInfinite(x) THEN (IF x.n < 0 THEN <<"-">> ELSE <<>>) \o InfinityChars
    ELSE (IF x.n < 0 THEN <<"-">> ELSE <<>>)
         \o Digits(Abs(x.n) \div x.d)
         \o (IF Abs(x.n) % x.d = 0 THEN <<>>
             ELSE <<".">> \o FractionDigits(Abs(x.n) % x.d, x.d))

(***************************************************************************)
(* 1. Logger                                                               *)
(***************************************************************************)
VARIABLES
    logOutput,        \* logOutput.textContent: the sequence of its lines
    reportContainer,  \* reportContainer.innerHTML
    op,               \* the operation that ran last
    inputs,           \* the input record the last operation built or was given
    outcome           \* how the last call of calculateTotalCost completed

vars == <<logOutput, reportContainer, op, inputs, outcome>>

\* log(message, type), on the text of logOutput; a message is its fixed text
\* and the values interpolated into it
log(text, message, args, type) ==
    Append(text, [type |-> type, message |-> message, args |-> args])

\* clearLogs()
clearLogs ==
    log(<<[type |-> "", message |-> "--- Start of New Session ---", args |-> <<>>]>>,
        "Logs cleared.", <<>>, "INFO")

(***************************************************************************)
(* 2. Data configuration                                                   *)
(***************************************************************************)
EXPORT_DISCOUNT_FACTOR == Rat(60, 100)

OPTIMIZATION_DISCOUNT == Rat(10, 100)

TRUCK_PROFILES ==
    [k \in {"40FT_DRY_VAN", "40FT_REEFER", "15MT_FLATBED"} |->
        CASE k = "40FT_DRY_VAN" ->
                [fuel_efficiency_km_l |-> Rat(278, 100), capacity_teu |-> 2,
                 type |-> "General Cargo"]
          [] k = "40FT_REEFER" ->
                [fuel_efficiency_km_l |-> Rat(25, 10), capacity_teu |-> 2,
                 type |-> "Refrigerated Cargo"]
          [] k = "15MT_FLATBED" ->
                [fuel_efficiency_km_l |-> Rat(32, 10), capacity_teu |-> 0,
                 type |-> "Non-Containerized"]]

\* the property names every object literal inherits from Object.prototype
\* (those the model's inputs draw from)
ObjectPrototypeKeys == {"toString", "constructor", "valueOf", "hasOwnProperty"}

\* TRUCK_PROFILES[truckType]: the profile of an own key, the inherited
\* member (an object without fuel_efficiency_km_l) for a key of
\* Object.prototype, undefined for any other key
TruckLookup(truckType) ==
    IF truckType \in DOMAIN TRUCK_PROFILES
    THEN [kind |-> "profile", profile |-> TRUCK_PROFILES[truckType]]
    ELSE IF truckType \in ObjectPrototypeKeys
    THEN [kind |-> "inherited"]
    ELSE [kind |-> "undefined"]

(***************************************************************************)
(* 3. Core engine                                                          *)
(***************************************************************************)
Return(v) == [kind |-> "return", value |-> v]

Throw(e) == [kind |-> "throw", error |-> e]

\* the TypeError of reading a property of undefined
UndefinedPropertyError ==
    [name |-> "TypeError",
     message |-> "Cannot read properties of undefined (reading 'fuel_efficiency_km_l')"]

\* the return value of calculateTransportCost, from its cost components
TransportResults(totalLiters, fuelCostETB, driverCostETB, truckRentETB) ==
    [fuelCostETB |-> fuelCostETB,
     driverCostETB |-> driverCostETB,
     truckRentETB |-> truckRentETB,
     totalTransportCost |-> Add(Add(fuelCostETB, driverCostETB), truckRentETB),
     totalLitersUsed |-> totalLiters]

\* the cost components, from the liters and the days to charge
TransportComponents(totalLiters, daysToCharge, driverDailyWage, fuelPrice, truckRentalCost) ==
    TransportResults(totalLiters,
                     Mul(totalLiters, fuelPrice),
                     Mul(daysToCharge, driverDailyWage),
                     Mul(daysToCharge, truckRentalCost))

\* truck.fuel_efficiency_km_l as a number: a missing property is undefined,
\* which is NaN in a division
FuelEfficiency(truck) ==
    IF truck.kind = "profile" THEN truck.profile.fuel_efficiency_km_l ELSE NaN

\* calculateTransportCost, truck being TRUCK_PROFILES[truckType]: reading a
\* property of undefined throws
TransportOfTruck(truck, distanceKm, estimatedDays, driverDailyWage, fuelPrice, truckRentalCost) ==
    IF truck.kind = "undefined" THEN Throw(UndefinedPropertyError)
    ELSE Return(TransportComponents(Div(distanceKm, FuelEfficiency(truck)),
                                    MathMax(Int2Num(1), estimatedDays),
                                    driverDailyWage, fuelPrice, truckRentalCost))

calculateTransportCost(distanceKm, truckType, estimatedDays, driverDailyWage, fuelPrice, truckRentalCost) ==
    TransportOfTruck(TruckLookup(truckType), distanceKm, estimatedDays,
                     driverDailyWage, fuelPrice, truckRentalCost)

\* calculateCustomsDuty with the duty charged on exports too
calculateCustomsDuty_ExportToo(cifValue, customsDutyRate, isExport) ==
    IF Gt(customsDutyRate, Int2Num(0))
    THEN [dutyCost |-> Mul(cifValue, Div(customsDutyRate, Int2Num(100))),
          dutyNotes |-> [text |-> "Calculated on CIF Value at rate",
                         args |-> <<formatETB(cifValue),
                                    NumberToString(customsDutyRate)>>]]
    ELSE [dutyCost |-> Int2Num(0),
          dutyNotes |-> [text |-> "Customs Duty applies only to Import/Local cargo.",
                         args |-> <<>>]]

calculateCustomsDuty(cifValue, customsDutyRate, isExport) ==
    IF ~isExport /\ Gt(customsDutyRate, Int2Num(0))
    THEN [dutyCost |-> Mul(cifValue, Div(customsDutyRate, Int2Num(100))),
          dutyNotes |-> [text |-> "Calculated on CIF Value at rate",
                         args |-> <<formatETB(cifValue),
                                    NumberToString(customsDutyRate)>>]]
    ELSE [dutyCost |-> Int2Num(0),
          dutyNotes |-> [text |-> "Customs Duty applies only to Import/Local cargo.",
                         args |-> <<>>]]

\* a tariff name is the sequence of its words, blanks and parentheses
DYNAMIC_TARIFFS(handlingCost, inspectionFee) ==
    << [name |-> <<"Dry", " ", "Port", " ", "Handling", " ", "(", "40ft", ")">>,
        rate_birr |-> handlingCost, unit |-> "per_container",
        free_days |-> 0, is_export_eligible |-> TRUE],
       [name |-> <<"Customs", " ", "Inspection", " ", "Fee", " ", "(", "Fixed", ")">>,
        rate_birr |-> inspectionFee, unit |-> "per_shipment",
        free_days |-> 0, is_export_eligible |-> FALSE],
       [name |-> <<"Storage", " ", "Penalty", " ", "(", "40ft,", " ", "per", " ", "day",
                   " ", "after", " ", "8", " ", "days", ")">>,
        rate_birr |-> Int2Num(192), unit |-> "per_day_after_free_period",
        free_days |-> 8, is_export_eligible |-> FALSE] >>

RECURSIVE BlanksBefore(_, _)
\* the number of consecutive blanks of name that end before position i
BlanksBefore(name, i) ==
    IF i > 1 /\ name[i - 1] = " " THEN 1 + BlanksBefore(name, i - 1) ELSE 0

\* name without its positions first - blanks .. last
CutName(name, first, last, blanks) ==
    SubSeq(name, 1, first - blanks - 1) \o SubSeq(name, last + 1, Len(name))

CleanBetween(name, opens, closes, first) ==
    IF opens = {} \/ {j \in closes : j > first} = {} THEN name
    ELSE CutName(name, first, CHOOSE i \in closes : \A j \in closes : j <= i,
                 BlanksBefore(name, first))

\* name.replace(/\s*\(.*\)/, ''): the blanks before the first "(" and all up
\* to the last ")" are removed
CleanName(name) ==
    CleanBetween(name,
                 {i \in 1..Len(name) : name[i] = "("},
                 {i \in 1..Len(name) : name[i] = ")"},
                 IF \E i \in 1..Len(name) : name[i] = "("
                 THEN CHOOSE i \in 1..Len(name) :
                        name[i] = "(" /\ \A j \in 1..(i - 1) : name[j] # "("
                 ELSE 0)

\* the cost of a tariff before any discount, daysOverFreePeriod being
\* Math.max(0, estimatedDays - tariff.free_days)
TariffCost(tariff, daysOverFreePeriod) ==
    IF tariff.unit \in {"per_container", "per_shipment"} THEN tariff.rate_birr
    ELSE IF /\ tariff.unit = "per_day_after_free_period"
            /\ Gt(daysOverFreePeriod, Int2Num(0))
    THEN Mul(daysOverFreePeriod, tariff.rate_birr)
    ELSE Int2Num(0)

\* the notes of a tariff: the text chosen by its unit, the values
\* interpolated, and the percentage of the export discount if applied
TariffNotes(tariff, daysOverFreePeriod, discounted) ==
    [text |->
        IF tariff.unit = "per_container" THEN "Base rate for 1 container."
        ELSE IF tariff.unit = "per_shipment" THEN "Fixed mandatory fee."
        ELSE IF tariff.unit # "per_day_after_free_period" THEN ""
        ELSE IF Gt(daysOverFreePeriod, Int2Num(0))
        THEN "Penalty applied for days over the free period."
        ELSE "No penalty: Trip completed within the free period.",
     args |->
        IF /\ tariff.unit = "per_day_after_free_period"
           /\ Gt(daysOverFreePeriod, Int2Num(0))
        THEN <<NumberToString(daysOverFreePeriod),
               NumberToString(Int2Num(tariff.free_days))>>
        ELSE <<>>,
     exportDiscount |->
        IF discounted
        THEN NumberToString(Mul(EXPORT_DISCOUNT_FACTOR, Int2Num(100)))
        ELSE <<>>]

\* TariffItem keeping only the tariffs of positive final cost
TariffItem_PositiveCostOnly(acc, tariff, finalCost, notes) ==
    IF Gt(finalCost, Int2Num(0))
    THEN [totalTariffCost |-> Add(acc.totalTariffCost, finalCost),
          breakdown |-> Append(acc.breakdown,
                               [name |-> CleanName(tariff.name),
                                cost |-> finalCost,
                                notes |-> notes])]
    ELSE acc

\* the end of an iteration: the tariff enters the total and the breakdown
TariffItem(acc, tariff, finalCost, notes) ==
    IF Gt(finalCost, Int2Num(0)) \/ Gt(tariff.rate_birr, Int2Num(0))
    THEN [totalTariffCost |-> Add(acc.totalTariffCost, finalCost),
          breakdown |-> Append(acc.breakdown,
                               [name |-> CleanName(tariff.name),
                                cost |-> finalCost,
                                notes |-> notes])]
    ELSE acc

\* TariffDiscount with the discount on every rule of an export
TariffDiscount_EveryRule(acc, tariff, isExport, discountMultiplier, cost, daysOverFreePeriod) ==
    TariffItem(acc, tariff,
               IF isExport THEN Mul(cost, discountMultiplier) ELSE cost,
               TariffNotes(tariff, daysOverFreePeriod, isExport))

\* the discounting of an iteration
TariffDiscount(acc, tariff, isExport, discountMultiplier, cost, daysOverFreePeriod) ==
    TariffItem(acc, tariff,
               IF isExport /\ tariff.is_export_eligible
               THEN Mul(cost, discountMultiplier) ELSE cost,
               TariffNotes(tariff, daysOverFreePeriod,
                           isExport /\ tariff.is_export_eligible))

\* one iteration of the loop over DYNAMIC_TARIFFS: acc is the running total
\* and the breakdown so far
TariffStep(acc, tariff, estimatedDays, isExport, discountMultiplier, daysOverFreePeriod) ==
    TariffDiscount(acc, tariff, isExport, discountMultiplier,
                   TariffCost(tariff, daysOverFreePeriod), daysOverFreePeriod)

RECURSIVE TariffLoop(_, _, _, _, _, _)
\* the loop from the i-th tariff on
TariffLoop(acc, tariffs, i, estimatedDays, isExport, discountMultiplier) ==
    IF i > Len(tariffs) THEN acc
    ELSE TariffLoop(
            TariffStep(acc, tariffs[i], estimatedDays, isExport, discountMultiplier,
                       MathMax(Int2Num(0),
                               Sub(estimatedDays, Int2Num(tariffs[i].free_days)))),
            tariffs, i + 1, estimatedDays, isExport, discountMultiplier)

\* calculateTariffCost with the discount factor used as the multiplier
calculateTariffCost_FactorAsMultiplier(estimatedDays, isExport, handlingCost, inspectionFee) ==
    TariffLoop([totalTariffCost |-> Int2Num(0), breakdown |-> <<>>],
               DYNAMIC_TARIFFS(handlingCost, inspectionFee), 1,
               estimatedDays, isExport,
               IF isExport THEN EXPORT_DISCOUNT_FACTOR ELSE Int2Num(1))

calculateTariffCost(estimatedDays, isExport, handlingCost, inspectionFee) ==
    TariffLoop([totalTariffCost |-> Int2Num(0), breakdown |-> <<>>],
               DYNAMIC_TARIFFS(handlingCost, inspectionFee), 1,
               estimatedDays, isExport,
               IF isExport THEN Sub(Int2Num(1), EXPORT_DISCOUNT_FACTOR)
               ELSE Int2Num(1))

\* the return value of calculateTaxCost, from its two costs
TaxResults(vatCost, whtCost) ==
    [vatCost |-> vatCost, whtCost |-> whtCost, totalTax |-> Add(vatCost, whtCost)]

calculateTaxCost(transportSubtotal, vatRate, whtRate) ==
    TaxResults(Mul(transportSubtotal, Div(vatRate, Int2Num(100))),
               Mul(transportSubtotal, Div(whtRate, Int2Num(100))))

\* step 1 of calculateTotalCost: the distance and the notes
RouteOptimization(distanceKm, numStops, actualDistanceKm) ==
    [actualDistance |-> actualDistanceKm,
     notes |->
        IF Ge(numStops, Int2Num(3))
        THEN [text |-> "Route Optimization Applied: Distance reduced",
              args |-> <<NumberToString(Mul(OPTIMIZATION_DISCOUNT, Int2Num(100))),
                         NumberToString(distanceKm),
                         toFixed2(actualDistanceKm),
                         NumberToString(numStops)>>]
        ELSE [text |-> "No Route Optimization Applied.", args |-> <<>>]]

\* steps 3 and 4 of calculateTotalCost and its return value
CombineComponents(in, opt, text, transportResults, tariffResults, dutyResults, taxResults, totalOptimizedCost) ==
    [completion |->
        Return([totalOptimizedCost |-> formatETB(totalOptimizedCost),
                transport |-> transportResults,
                tariffs |-> tariffResults,
                duty |-> dutyResults,
                tax |-> taxResults,
                rates |-> in,
                optimization |->
                    [originalDistance |-> in.distanceKm,
                     actualDistance |-> opt.actualDistance,
                     notes |-> opt.notes,
                     numStops |-> in.numStops],
                isExport |-> in.isExport]),
     logOutput |->
        log(log(text, "Tax Calculation: VAT + WHT applied to Transport Subtotal.",
                <<NumberToString(in.vatRate), NumberToString(in.whtRate)>>, "INFO"),
            "Total Cost Calculated", <<formatETB(totalOptimizedCost)>>, "SUCCESS")]

\* TaxAndTotal with the tax left out of the grand total
TaxAndTotal_TaxLeftOut(in, opt, text, transportResults, tariffResults, dutyResults, taxResults) ==
    CombineComponents(in, opt, text, transportResults, tariffResults, dutyResults,
                      taxResults,
                      Add(transportResults.totalTransportCost,
                          Add(tariffResults.totalTariffCost, dutyResults.dutyCost)))

\* calculateTotalCost from the tax component on
TaxAndTotal(in, opt, text, transportResults, tariffResults, dutyResults, taxResults) ==
    CombineComponents(in, opt, text, transportResults, tariffResults, dutyResults,
                      taxResults,
                      Add(Add(transportResults.totalTransportCost,
                              Add(tariffResults.totalTariffCost, dutyResults.dutyCost)),
                          taxResults.totalTax))

\* CostsOfRoute with the tax taken on the transport, tariff and duty costs
CostsOfRoute_TaxOnEverything(in, opt, text, transport, tariffResults, dutyResults) ==
    IF transport.kind = "throw"
    THEN [completion |-> transport, logOutput |-> text]
    ELSE TaxAndTotal(in, opt, text, transport.value, tariffResults, dutyResults,
                     calculateTaxCost(Add(transport.value.totalTransportCost,
                                          Add(tariffResults.totalTariffCost,
                                              dutyResults.dutyCost)),
                                      in.vatRate, in.whtRate))

\* step 2 of calculateTotalCost on: `transport` is how calculateTransportCost
\* completed, and a throw ends the call
CostsOfRoute(in, opt, text, transport, tariffResults, dutyResults) ==
    IF transport.kind = "throw"
    THEN [completion |-> transport, logOutput |-> text]
    ELSE TaxAndTotal(in, opt, text, transport.value, tariffResults, dutyResults,
                     calculateTaxCost(transport.value.totalTransportCost,
                                      in.vatRate, in.whtRate))

\* OptimizedRoute without the log entry of the optimization
OptimizedRoute_Silent(in, opt, text) ==
    CostsOfRoute(in, opt, text,
                 calculateTransportCost(opt.actualDistance, in.truckType,
                                        in.estimatedDays, in.driverCost,
                                        in.fuelPrice, in.truckRentalCost),
                 calculateTariffCost(in.estimatedDays, in.isExport,
                                     in.handlingCost, in.inspectionFee),
                 calculateCustomsDuty(in.cifValue, in.customsDutyRate, in.isExport))

\* calculateTotalCost once the route is optimized
OptimizedRoute(in, opt, text) ==
    CostsOfRoute(in, opt,
                 IF Ge(in.numStops, Int2Num(3))
                 THEN log(text, opt.notes.text, opt.notes.args, "SUCCESS")
                 ELSE text,
                 calculateTransportCost(opt.actualDistance, in.truckType,
                                        in.estimatedDays, in.driverCost,
                                        in.fuelPrice, in.truckRentalCost),
                 calculateTariffCost(in.estimatedDays, in.isExport,
                                     in.handlingCost, in.inspectionFee),
                 calculateCustomsDuty(in.cifValue, in.customsDutyRate, in.isExport))

\* calculateTotalCost with the distance reduced only above three stops
calculateTotalCost_AboveThreeStops(in, text) ==
    OptimizedRoute(in,
                   RouteOptimization(in.distanceKm, in.numStops,
                        IF Gt(in.numStops, Int2Num(3))
                        THEN Mul(in.distanceKm, Sub(Int2Num(1), OPTIMIZATION_DISCOUNT))
                        ELSE in.distanceKm),
                   log(text,
                       "Starting Total Cost Calculation (Reading all rates from Display)...",
                       <<>>, "INFO"))

\* calculateTotalCost(inputs) called with the log text `text`: how the call
\* completes and the log text it leaves
calculateTotalCost(in, text) ==
    OptimizedRoute(in,
                   RouteOptimization(in.distanceKm, in.numStops,
                        IF Ge(in.numStops, Int2Num(3))
                        THEN Mul(in.distanceKm, Sub(Int2Num(1), OPTIMIZATION_DISCOUNT))
                        ELSE in.distanceKm),
                   log(text,
                       "Starting Total Cost Calculation (Reading all rates from Display)...",
                       <<>>, "INFO"))

(***************************************************************************)
(* 4. Application entry point and reporting                                *)
(***************************************************************************)
\* formatRow(label, value, isSub): a table row
formatRow(label, args, value, isSub) ==
    [label |-> label, args |-> args, value |-> formatETB(value), sub |-> isSub]

\* the rows of the breakdown items shown
RowsOf(shown) ==
    [i \in 1..Len(shown) |-> formatRow(shown[i].name, <<>>, shown[i].cost, TRUE)]

\* the rows generateReport keeps of the tariff breakdown
BreakdownRows(results) ==
    RowsOf(SelectSeq(results.tariffs.breakdown,
                     LAMBDA item :
                        \/ Gt(item.cost, Int2Num(0))
                        \/ /\ \E i \in 1..Len(item.name) : item.name[i] = "Penalty"
                           /\ Gt(results.rates.estimatedDays, Int2Num(8))))

\* generateReport(results): the HTML it assigns to reportContainer.innerHTML
generateReport(results) ==
    LET transport == results.transport
        tariffs == results.tariffs
        duty == results.duty
        tax == results.tax
        rates == results.rates
        optimization == results.optimization
        dutyRows ==
            IF Gt(duty.dutyCost, Int2Num(0)) \/ Gt(rates.customsDutyRate, Int2Num(0))
            THEN <<formatRow(<<"Gomruk Customs Duty">>,
                             <<NumberToString(rates.customsDutyRate)>>,
                             duty.dutyCost, TRUE)>>
            ELSE <<>>
        finalSubtotalB == Add(tariffs.totalTariffCost, duty.dutyCost)
    IN [kind |-> "report",
        route |-> [original |-> NumberToString(optimization.originalDistance),
                   actual |-> formatETB(optimization.actualDistance),
                   days |-> NumberToString(rates.estimatedDays),
                   cargo |-> IF results.isExport THEN "EXPORT" ELSE "IMPORT"],
        sectionA |-> formatETB(transport.totalTransportCost),
        rowsA |-> <<formatRow(<<"Fuel Cost (Optimized)">>, <<>>, transport.fuelCostETB, TRUE),
                    formatRow(<<"Driver Wage (for 5 days)">>, <<>>, transport.driverCostETB, TRUE),
                    formatRow(<<"Truck Rental (Fixed Cost)">>, <<>>, transport.truckRentETB, TRUE)>>,
        sectionB |-> formatETB(finalSubtotalB),
        rowsB |-> dutyRows \o BreakdownRows(results),
        sectionC |-> formatETB(tax.totalTax),
        rowsC |-> <<formatRow(<<"VAT">>, <<NumberToString(rates.vatRate)>>, tax.vatCost, TRUE),
                    formatRow(<<"WHT">>, <<NumberToString(rates.whtRate)>>, tax.whtCost, TRUE)>>,
        total |-> results.totalOptimizedCost,
        note |-> optimization.notes]

\* the fields of the input record whose typeof is 'number'
NumericFields ==
    {"distanceKm", "estimatedDays", "numStops", "cifValue", "driverCost",
     "truckRentalCost", "fuelPrice", "vatRate", "whtRate", "inspectionFee",
     "handlingCost", "customsDutyRate"}

\* step 1 of handleCalculation: the input record read from the form, whose
\* fields are the values of the elements of these ids
GatherInputs(form) ==
    [distanceKm |-> parseFloat(form.distance),
     estimatedDays |-> parseInt(form.days),
     truckType |-> form.truckType,
     isExport |-> (form.isExport = "true"),
     numStops |-> parseInt(form.numStops),
     cifValue |-> parseFloat(form.cifValue),
     driverCost |-> parseFloat(form.driverCost),
     truckRentalCost |-> parseFloat(form.truckRentalCost),
     fuelPrice |-> parseFloat(form.fuelPrice),
     vatRate |-> parseFloat(form.vatRate),
     whtRate |-> parseFloat(form.whtRate),
     inspectionFee |-> parseFloat(form.inspectionFee),
     handlingCost |-> parseFloat(form.handlingCost),
     customsDutyRate |-> parseFloat(form.customsDutyRate)]

\* step 2 of handleCalculation: the condition under which it rejects
ValidationFails(in) ==
    \/ \E f \in NumericFields : IsNaN(in[f])
    \/ Le(in.distanceKm, Int2Num(0))
    \/ Le(in.estimatedDays, Int2Num(0))
    \/ Lt(in.numStops, Int2Num(1))

(***************************************************************************)
(* The inputs the model draws                                              *)
(***************************************************************************)
\* the longest trip, in days
MaxDays == 10

\* the largest number of delivery stops
MaxStops == 3

\* the longest log text a direct call of the engine still appends to
MaxLogLen == 6

\* the input record of the specification's end-to-end example
ExampleInputs ==
    [distanceKm |-> Int2Num(500),
     estimatedDays |-> Int2Num(10),
     truckType |-> "40FT_DRY_VAN",
     isExport |-> FALSE,
     numStops |-> Int2Num(1),
     cifValue |-> Int2Num(100000),
     customsDutyRate |-> Int2Num(10),
     driverCost |-> Int2Num(1000),
     fuelPrice |-> Int2Num(50),
     truckRentalCost |-> Int2Num(2000),
     vatRate |-> Int2Num(15),
     whtRate |-> Int2Num(2),
     handlingCost |-> Int2Num(1500),
     inspectionFee |-> Int2Num(500)]

EstimatedDaysValues == {Int2Num(d) : d \in {0} \cup 8..MaxDays}

\* keys with a profile, a key without one, a key of Object.prototype
TruckTypeValues == {"40FT_DRY_VAN", "15MT_FLATBED", "20FT_TANKER", "toString"}

\* the example with the inputs of the transport side varied
TransportInputs ==
    {[ExampleInputs EXCEPT !.estimatedDays = d, !.truckType = t,
                           !.numStops = Int2Num(k), !.isExport = x] :
        d \in EstimatedDaysValues, t \in TruckTypeValues,
        k \in 1..MaxStops, x \in BOOLEAN}

\* the tariff and duty inputs of a record
TariffInputs ==
    [isExport : BOOLEAN,
     cifValue : {Int2Num(100000), Int2Num(2500)},
     customsDutyRate : {Int2Num(-5), Int2Num(0), Int2Num(10)},
     handlingCost : {Int2Num(-100), Int2Num(0), Int2Num(1500)},
     inspectionFee : {Int2Num(0), Int2Num(500)}]

\* the record `in` with its tariff and duty inputs replaced by those of t
WithTariffInputs(in, t) ==
    [in EXCEPT !.isExport = t.isExport, !.cifValue = t.cifValue,
               !.customsDutyRate = t.customsDutyRate,
               !.handlingCost = t.handlingCost,
               !.inspectionFee = t.inspectionFee]

\* the input records of direct calls of calculateTotalCost
EngineInputs ==
    TransportInputs
    \cup {WithTariffInputs([ExampleInputs EXCEPT !.estimatedDays = d], t) :
            d \in EstimatedDaysValues, t \in TariffInputs}

\* a form that passes validation: the values of its elements, by id
ExampleForm ==
    [distance |-> <<"5", "0", "0">>,
     days |-> <<"1", "0", ".", "5">>,
     truckType |-> "40FT_REEFER",
     isExport |-> "false",
     numStops |-> <<"3">>,
     cifValue |-> <<"1", "0", "0", "0", "0", "0">>,
     driverCost |-> <<"1", "0", "0", "0">>,
     truckRentalCost |-> <<"2", "0", "0", "0">>,
     fuelPrice |-> <<"5", "0">>,
     vatRate |-> <<"1", "5">>,
     whtRate |-> <<"2">>,
     inspectionFee |-> <<"5", "0", "0">>,
     handlingCost |-> <<"1", "5", "0", "0">>,
     customsDutyRate |-> <<"7", ".", "5">>]

\* the contents of the form the model draws
Forms ==
    {[ExampleForm EXCEPT !.distance = a, !.days = d, !.numStops = k] :
        a \in {<<"5", "0", "0">>, <<"0">>, <<"a", "b", "c">>,
               <<"I", "n", "f", "i", "n", "i", "t", "y">>},
        d \in {<<"1", "0", ".", "5">>, <<"0">>, <<>>},
        k \in {<<"3">>, <<" ", "1">>, <<"0">>}}
    \cup
    {[ExampleForm EXCEPT !.truckType = t, !.isExport = x, !.cifValue = c, !.fuelPrice = f] :
        t \in {"40FT_REEFER", "20FT_TANKER"},
        x \in {"true", "false"},
        c \in {<<"1", "0", "0", "0", "0", "0">>, <<"1", "e", "9", "9", "9">>},
        f \in {<<"5", "0">>, <<"-", "I", "n", "f", "i", "n", "i", "t", "y">>}}

(***************************************************************************)
(* The state machine                                                       *)
(***************************************************************************)
NoOutcome == [kind |-> "none"]

\* the script has run: its last line logs the initialization
Init ==
    /\ logOutput = log(<<>>, "EthioRoute Engine Initialized, all rates are configurable.",
                       <<>>, "SUCCESS")
    /\ reportContainer = [kind |-> "initial"]
    /\ op = "init"
    /\ inputs = <<>>
    /\ outcome = NoOutcome

\* steps 3 and 4 of handleCalculation, `run` being the call of the engine
ReportOrFail(run) ==
    /\ outcome' = run.completion
    /\ IF run.completion.kind = "return"
       THEN /\ logOutput' = run.logOutput
            /\ reportContainer' = generateReport(run.completion.value)
       ELSE /\ logOutput' = log(run.logOutput, "Calculation Failed",
                                <<run.completion.error.message>>, "CRITICAL ERROR")
            /\ reportContainer' = [kind |-> "criticalError",
                                   message |-> run.completion.error.message]

\* handleCalculation from its validation on, `in` being the inputs gathered
ValidateAndRun(in) ==
    /\ inputs' = in
    /\ IF ValidationFails(in)
       THEN /\ logOutput' = log(clearLogs,
                                "Please enter valid, positive numbers for all fields.",
                                <<>>, "ERROR")
            /\ reportContainer' = [kind |-> "inputError"]
            /\ outcome' = NoOutcome
       ELSE ReportOrFail(calculateTotalCost(in, clearLogs))

\* a click on calculateBtn with the form holding `form`
handleCalculation(form) ==
    /\ op' = "handleCalculation"
    /\ ValidateAndRun(GatherInputs(form))

\* the effect of a direct call, `run` being the call
EngineCall(in, run) ==
    /\ op' = "calculateTotalCost"
    /\ inputs' = in
    /\ outcome' = run.completion
    /\ logOutput' = run.logOutput
    /\ UNCHANGED reportContainer

\* a caller of the engine calls calculateTotalCost(in)
CallCalculateTotalCost(in) ==
    /\ Len(logOutput) + 4 <= MaxLogLen
    /\ EngineCall(in, calculateTotalCost(in, logOutput))

Next ==
    \/ \E form \in Forms : handleCalculation(form)
    \/ \E in \in EngineInputs : CallCalculateTotalCost(in)

Spec == Init /\ [][Next]_vars

(***************************************************************************)
(* Properties                                                              *)
(***************************************************************************)
\* the last call of calculateTotalCost returned a result record
Returned == outcome.kind = "return"

\* the last operation reached the call of calculateTotalCost
EngineCalled ==
    \/ op = "calculateTotalCost"
    \/ op = "handleCalculation" /\ ~ValidationFails(inputs)

Max(a, b) == IF a > b THEN a ELSE b

RECURSIVE SumOfCosts(_)
\* the sum of the costs of breakdown items
SumOfCosts(items) ==
    IF items = <<>> THEN Int2Num(0)
    ELSE Add(SumOfCosts(SubSeq(items, 1, Len(items) - 1)), items[Len(items)].cost)

HandlingName == <<"Dry", " ", "Port", " ", "Handling">>

InspectionName == <<"Customs", " ", "Inspection", " ", "Fee">>

PenaltyName == <<"Storage", " ", "Penalty">>

\* the costs of the breakdown items of a name
CostsOf(breakdown, name) ==
    {breakdown[i].cost : i \in {j \in 1..Len(breakdown) : breakdown[j].name = name}}

\* 192 for each day of the trip beyond the eighth
PenaltyFor(in) == Int2Num(192 * Max(0, in.estimatedDays.n - 8))

\* C1: for a known truckType, the formatted totalOptimizedCost of the result
\* is the formatted sum of the transport total, the tariff total plus the
\* duty, and the total tax of the same result record
GrandTotalIsSumOfParts ==
    (Returned /\ inputs.truckType \in DOMAIN TRUCK_PROFILES) =>
        outcome.value.totalOptimizedCost =
            formatETB(Add(Add(outcome.value.transport.totalTransportCost,
                              Add(outcome.value.tariffs.totalTariffCost,
                                  outcome.value.duty.dutyCost)),
                          outcome.value.tax.totalTax))

\* a direct call returned a total in which all four terms are positive
GrandTotalWitness ==
    /\ op = "calculateTotalCost"
    /\ Returned
    /\ inputs.truckType \in DOMAIN TRUCK_PROFILES
    /\ Gt(outcome.value.transport.totalTransportCost, Int2Num(0))
    /\ Gt(outcome.value.tariffs.totalTariffCost, Int2Num(0))
    /\ Gt(outcome.value.duty.dutyCost, Int2Num(0))
    /\ Gt(outcome.value.tax.totalTax, Int2Num(0))
    /\ outcome.value.totalOptimizedCost # <<"0", ".", "0", "0">>

\* C2: the result reports the original distance unchanged; below 3 stops
\* the actual distance is the original one, from 3 stops on it is 0.90 of
\* it; and the transport costs are those of the actual distance
RouteOptimizationRule ==
    Returned =>
        /\ outcome.value.optimization.originalDistance = inputs.distanceKm
        /\ Lt(inputs.numStops, Int2Num(3)) =>
              outcome.value.optimization.actualDistance = inputs.distanceKm
        /\ Ge(inputs.numStops, Int2Num(3)) =>
              outcome.value.optimization.actualDistance =
                  Mul(inputs.distanceKm, Rat(90, 100))
        /\ Return(outcome.value.transport) =
              calculateTransportCost(outcome.value.optimization.actualDistance,
                                     inputs.truckType, inputs.estimatedDays,
                                     inputs.driverCost, inputs.fuelPrice,
                                     inputs.truckRentalCost)

\* a call with 3 stops returned 450 km for 500 km, and the fuel of 450 km
RouteOptimizationWitness ==
    /\ Returned
    /\ inputs.numStops = Int2Num(3)
    /\ inputs.truckType = "40FT_DRY_VAN"
    /\ outcome.value.optimization.originalDistance = Int2Num(500)
    /\ outcome.value.optimization.actualDistance = Int2Num(450)
    /\ outcome.value.transport.totalLitersUsed = Rat(45000, 278)

\* C3: the taxes of the result are those of every call whose inputs differ
\* from the ones given only in isExport, cifValue, customsDutyRate,
\* handlingCost and inspectionFee
TaxBaseExclusivity ==
    Returned =>
        \A t \in TariffInputs :
            calculateTotalCost(WithTariffInputs(inputs, t), <<>>).completion.value.tax
                = outcome.value.tax

\* a call returned a positive tax, and another call that agrees with it on
\* the transport inputs has other tariff and duty costs
TaxBaseWitness ==
    /\ op = "calculateTotalCost"
    /\ Returned
    /\ Gt(outcome.value.tax.vatCost, Int2Num(0))
    /\ Gt(outcome.value.tax.whtCost, Int2Num(0))
    /\ \E t \in TariffInputs :
          /\ calculateTariffCost(inputs.estimatedDays, t.isExport, t.handlingCost,
                                 t.inspectionFee).totalTariffCost
                # outcome.value.tariffs.totalTariffCost
          /\ calculateCustomsDuty(t.cifValue, t.customsDutyRate, t.isExport).dutyCost
                # outcome.value.duty.dutyCost

\* C4: for a truckType without a profile calculateTransportCost throws, and
\* calculateTotalCost completes with that very throw, returning no result
UnknownTruckTypeFails ==
    (EngineCalled /\ inputs.truckType \notin DOMAIN TRUCK_PROFILES) =>
        /\ outcome.kind = "throw"
        /\ outcome = calculateTransportCost(inputs.distanceKm, inputs.truckType,
                                            inputs.estimatedDays, inputs.driverCost,
                                            inputs.fuelPrice, inputs.truckRentalCost)

\* C5: the breakdown has one Storage Penalty item, and its cost is 192 for
\* each day beyond the eighth, for exports and imports alike
StoragePenaltyCost ==
    Returned =>
        CostsOf(outcome.value.tariffs.breakdown, PenaltyName) = {PenaltyFor(inputs)}

\* an export of 10 days returned the penalty 384
StoragePenaltyWitness ==
    /\ Returned
    /\ inputs.isExport
    /\ inputs.estimatedDays = Int2Num(10)
    /\ CostsOf(outcome.value.tariffs.breakdown, PenaltyName) = {Int2Num(384)}

\* C6: for an export the handling fee costs 0.40 of handlingCost, and the
\* inspection fee and the storage penalty cost what they cost for an
\* import; for an import every item costs its undiscounted cost
ExportDiscountOnHandlingOnly ==
    Returned =>
        /\ CostsOf(outcome.value.tariffs.breakdown, HandlingName) \subseteq
              {IF inputs.isExport THEN Mul(inputs.handlingCost, Rat(40, 100))
               ELSE inputs.handlingCost}
        /\ CostsOf(outcome.value.tariffs.breakdown, InspectionName) \subseteq
              {inputs.inspectionFee}
        /\ CostsOf(outcome.value.tariffs.breakdown, PenaltyName) = {PenaltyFor(inputs)}
        /\ \A name \in {InspectionName, PenaltyName} :
              CostsOf(outcome.value.tariffs.breakdown, name) =
                  CostsOf(calculateTariffCost(inputs.estimatedDays, FALSE,
                                              inputs.handlingCost,
                                              inputs.inspectionFee).breakdown, name)

\* an export with handlingCost 1500 returned 600 for the handling, 500 for
\* the inspection and 384 for the penalty
ExportDiscountWitness ==
    /\ Returned
    /\ inputs.isExport
    /\ inputs.handlingCost = Int2Num(1500)
    /\ CostsOf(outcome.value.tariffs.breakdown, HandlingName) = {Int2Num(600)}
    /\ CostsOf(outcome.value.tariffs.breakdown, InspectionName) = {Int2Num(500)}
    /\ CostsOf(outcome.value.tariffs.breakdown, PenaltyName) = {Int2Num(384)}

\* C7: the duty is 0 for an export and for a rate that is not positive, and
\* cifValue * customsDutyRate / 100 otherwise
CustomsDutyRule ==
    Returned =>
        outcome.value.duty.dutyCost =
            IF inputs.isExport \/ Le(inputs.customsDutyRate, Int2Num(0))
            THEN Int2Num(0)
            ELSE Div(Mul(inputs.cifValue, inputs.customsDutyRate), Int2Num(100))

\* an import at 10% of 100000 returned the duty 10000
CustomsDutyWitness ==
    /\ op = "calculateTotalCost"
    /\ Returned
    /\ ~inputs.isExport
    /\ inputs.customsDutyRate = Int2Num(10)
    /\ inputs.cifValue = Int2Num(100000)
    /\ outcome.value.duty.dutyCost = Int2Num(10000)

\* the final cost of each of the three rules, in the order of the table
FinalCosts(in) ==
    << IF in.isExport THEN Mul(in.handlingCost, Rat(40, 100)) ELSE in.handlingCost,
       in.inspectionFee,
       PenaltyFor(in) >>

\* the rules that are itemized: those of positive final cost or positive rate
Itemized(in) ==
    {i \in 1..3 :
        \/ Gt(FinalCosts(in)[i], Int2Num(0))
        \/ Gt(<<in.handlingCost, in.inspectionFee, Int2Num(192)>>[i], Int2Num(0))}

RECURSIVE SumOver(_, _)
\* the sum of costs[1..k]
SumOver(costs, k) ==
    IF k = 0 THEN Int2Num(0) ELSE Add(SumOver(costs, k - 1), costs[k])

\* C8: the breakdown holds exactly the rules of positive final cost or
\* positive rate, each with its final cost; the total is the sum of the
\* costs of the breakdown; for non-negative rates it is the sum of the
\* three final costs; and the storage penalty is always itemized
TariffTotalMatchesBreakdown ==
    Returned =>
        /\ {outcome.value.tariffs.breakdown[i].name :
                i \in 1..Len(outcome.value.tariffs.breakdown)}
              = {<<HandlingName, InspectionName, PenaltyName>>[i] : i \in Itemized(inputs)}
        /\ Len(outcome.value.tariffs.breakdown) = Cardinality(Itemized(inputs))
        /\ \A i \in Itemized(inputs) :
              CostsOf(outcome.value.tariffs.breakdown,
                      <<HandlingName, InspectionName, PenaltyName>>[i])
                  = {FinalCosts(inputs)[i]}
        /\ outcome.value.tariffs.totalTariffCost
              = SumOfCosts(outcome.value.tariffs.breakdown)
        /\ (Ge(inputs.handlingCost, Int2Num(0)) /\ Ge(inputs.inspectionFee, Int2Num(0)))
              => outcome.value.tariffs.totalTariffCost = SumOver(FinalCosts(inputs), 3)
        /\ CostsOf(outcome.value.tariffs.breakdown, PenaltyName) # {}

\* a call with a negative handling cost within the free period returned a
\* breakdown without the handling fee and with the penalty at cost 0
TariffBreakdownWitness ==
    /\ Returned
    /\ Lt(inputs.handlingCost, Int2Num(0))
    /\ Le(inputs.estimatedDays, Int2Num(8))
    /\ CostsOf(outcome.value.tariffs.breakdown, HandlingName) = {}
    /\ CostsOf(outcome.value.tariffs.breakdown, PenaltyName) = {Int2Num(0)}
    /\ outcome.value.tariffs.totalTariffCost = Int2Num(500)

\* the messages of a log text
Messages(text) == [i \in 1..Len(text) |-> text[i].message]

\* the messages a call of calculateTotalCost logs: its start, the
\* optimization from 3 stops on and, unless it throws, the tax and the total
CallMessages(in, completion) ==
    <<"Starting Total Cost Calculation (Reading all rates from Display)...">>
    \o (IF Ge(in.numStops, Int2Num(3))
        THEN <<"Route Optimization Applied: Distance reduced">> ELSE <<>>)
    \o (IF completion.kind = "return"
        THEN <<"Tax Calculation: VAT + WHT applied to Transport Subtotal.",
               "Total Cost Calculated">>
        ELSE <<>>)

InvalidInputRejected ==
    (/\ op = "handleCalculation"
     /\ \/ \E f \in NumericFields : ~IsFinite(inputs[f])
        \/ Le(inputs.distanceKm, Int2Num(0))
        \/ Le(inputs.estimatedDays, Int2Num(0))
        \/ Lt(inputs.numStops, Int2Num(1)))
    => (outcome.kind = "none" /\ reportContainer.kind = "inputError")

====
